---- MODULE Spec2Model ----
(***************************************************************************)
(* A model of newbnk.py, the single-file "Mini Banking" console program.   *)
(*                                                                         *)
(* State: the module globals `accounts` and `next_account_number`, the     *)
(* content of the data file banking_data.json, and the position of         *)
(* run_bank (before load, at the menu prompt, at the "Press Enter to       *)
(* continue" prompt that follows a handler, exited).  Every menu handler   *)
(* is one action that runs the whole handler, its save included.           *)
(*                                                                         *)
(* Money.  The program reads every amount with float(), so an amount is a  *)
(* Python float.  The model keeps a finite amount as the exact value of    *)
(* the double (whole cents and the distance of the double from them) and   *)
(* keeps the two special values float() also accepts ("inf", "nan") as     *)
(* values of their own, with IEEE-754 arithmetic and comparisons on all of *)
(* them.  In the data file a number is text: json.dump writes a float as   *)
(* the shortest decimal that reads back as the same double (or as NaN,     *)
(* Infinity, -Infinity) and json.load reads the text as the nearest        *)
(* double; the model computes both conversions digit by digit.             *)
(* Timestamps and holder names are left out of the records: no operation   *)
(* reads them back.                                                        *)
(***************************************************************************)
EXTENDS Integers, Sequences, FiniteSets, TLC

VARIABLES
    accounts,             \* newbnk.py:17  account number -> account record
    next_account_number,  \* newbnk.py:18
    file,                 \* the content of DATA_FILE on disk
    pc,                   \* "start" (before load), "menu", "pause", "exited"
    saveOk,               \* the latest save attempt of this session succeeded
    saveFailuresLeft,     \* how many more save attempts the environment lets fail
    last                  \* what the latest handler did (observation only)

vars == <<accounts, next_account_number, file, pc, saveOk, saveFailuresLeft, last>>

(***************************************************************************)
(* Bounds of the model.                                                    *)
(***************************************************************************)
MaxAccounts == 2
MaxSize == 5
MaxCents == 200
MaxSaveFailures == 1

StartAccountNumber == 1001

(***************************************************************************)
(* Python floats (IEEE-754 doubles): finite values, +inf, -inf, nan.       *)
(*                                                                         *)
(* A finite double x is kept exactly, as the pair (c, d) with              *)
(*     x = c/100 + d * U,      U = 2^-59 / 25,                             *)
(* where c is the amount in whole cents and d how far the double lies from *)
(* that decimal amount.  One cent is 2^57 U exactly, so x is the integer   *)
(* c * 2^57 + d in units of U.  Every double of at least 0.01 in magnitude *)
(* is a multiple of 2^-59 = 25 U, and sums and differences of such doubles *)
(* stay multiples of 25 U, so d is an integer; it is 0 for the amounts     *)
(* that are doubles themselves (0.25, 0.5, 1.0) and a few thousand at most *)
(* for the balances a session reaches.  A double in [2^e, 2^(e+1)) has 53  *)
(* significant bits: it is a multiple of Grid(e) = 2^(e-52) = 25 * 2^(e+7) *)
(* U.  The arithmetic below rounds exact results to that grid, to nearest  *)
(* and ties to even, as the hardware does.                                 *)
(***************************************************************************)
LowestBinade == 0 - 7
HighestBinade == 16

\* 2^n, for n in 0 .. 30
PowersOf2 ==
    <<1, 2, 4, 8, 16, 32, 64, 128, 256, 512, 1024, 2048, 4096, 8192, 16384,
      32768, 65536, 131072, 262144, 524288, 1048576, 2097152, 4194304,
      8388608, 16777216, 33554432, 67108864, 134217728, 268435456, 536870912,
      1073741824>>

Pow2(n) == PowersOf2[n + 1]

\* 2^n mod 25, for n >= 0: the powers of 2 repeat modulo 25 every 20 steps
PowersOf2Mod25 ==
    <<1, 2, 4, 8, 16, 7, 14, 3, 6, 12, 24, 23, 21, 17, 9, 18, 11, 22, 19, 13>>

Pow2Mod25(n) == PowersOf2Mod25[(n % 20) + 1]

Grid(e) == 25 * Pow2(e + 7)

\* (u * 2^57) mod Grid(e), for u >= 0 whole cents
CentsModGrid(u, e) == Pow2(e + 7) * (((u % 25) * Pow2Mod25(50 - e)) % 25)

\* (h * 2^56) mod Grid(e), for h >= 0 half cents
HalfCentsModGrid(h, e) == Pow2(e + 7) * (((h % 25) * Pow2Mod25(49 - e)) % 25)

\* c/100 + d*U >= 2^e, for c >= 0
AtLeastPow2(c, d, e) ==
    IF e >= 0
    THEN c > 100 * Pow2(e) \/ (c = 100 * Pow2(e) /\ d >= 0)
    ELSE c * Pow2(0 - e) > 100 \/ (c * Pow2(0 - e) = 100 /\ d >= 0)

\* the exponent e with 2^e <= c/100 + d*U < 2^(e+1), or LowestBinade for a
\* smaller value: below 2^(LowestBinade + 1) every multiple of 25 U is a double
RECURSIVE BinadeFrom(_, _, _)
BinadeFrom(c, d, e) ==
    IF e < HighestBinade /\ AtLeastPow2(c, d, e + 1) THEN BinadeFrom(c, d, e + 1)
    ELSE e

RECURSIVE BinadeBelow(_, _, _)
BinadeBelow(c, d, e) ==
    IF e > LowestBinade /\ ~AtLeastPow2(c, d, e) THEN BinadeBelow(c, d, e - 1)
    ELSE e

Binade(c, d) ==
    IF AtLeastPow2(c, d, 0) THEN BinadeFrom(c, d, 0) ELSE BinadeBelow(c, d, 0 - 1)

\* the double nearest to the exact value c/100 + d*U >= 0
RoundMagnitude(c, d) ==
    LET e == Binade(c, d)
        rem == (CentsModGrid(c, e) + d) % Grid(e)
        rem2 == (CentsModGrid(c, e + 1) + d) % Grid(e + 1)
        down == 2 * rem < Grid(e) \/ (2 * rem = Grid(e) /\ rem2 < Grid(e))
    IN  [k |-> "fin", c |-> c,
         d |-> IF rem = 0 THEN d ELSE IF down THEN d - rem ELSE d - rem + Grid(e)]

\* the double nearest to the exact value c/100 + d*U
RoundToDouble(c, d) ==
    IF c < 0 \/ (c = 0 /\ d < 0)
    THEN LET m == RoundMagnitude(0 - c, 0 - d)
         IN  [k |-> "fin", c |-> 0 - m.c, d |-> 0 - m.d]
    ELSE RoundMagnitude(c, d)

\* float("n/100"): the double nearest to n cents
Fin(n) == RoundToDouble(n, 0)
Inf == [k |-> "inf", c |-> 0, d |-> 0]
NegInf == [k |-> "-inf", c |-> 0, d |-> 0]
NaN == [k |-> "nan", c |-> 0, d |-> 0]
Zero == Fin(0)

\* a > b on floats: any comparison with nan is False
FGt(a, b) ==
    IF a.k = "nan" \/ b.k = "nan" THEN FALSE
    ELSE IF a.k = "inf" THEN b.k # "inf"
    ELSE IF a.k = "-inf" THEN FALSE
    ELSE IF b.k = "inf" THEN FALSE
    ELSE IF b.k = "-inf" THEN TRUE
    ELSE a.c > b.c \/ (a.c = b.c /\ a.d > b.d)

\* a < b on floats
FLt(a, b) == FGt(b, a)

\* a >= b on floats
FGe(a, b) ==
    IF a.k = "nan" \/ b.k = "nan" THEN FALSE ELSE ~FGt(b, a)

FNeg(a) ==
    IF a.k = "fin" THEN [k |-> "fin", c |-> 0 - a.c, d |-> 0 - a.d]
    ELSE IF a.k = "inf" THEN NegInf
    ELSE IF a.k = "-inf" THEN Inf
    ELSE NaN

\* a + b on floats: the exact sum, rounded to the nearest double
FAdd(a, b) ==
    IF a.k = "nan" \/ b.k = "nan" THEN NaN
    ELSE IF a.k = "fin" /\ b.k = "fin" THEN RoundToDouble(a.c + b.c, a.d + b.d)
    ELSE IF a.k = "fin" THEN b
    ELSE IF b.k = "fin" THEN a
    ELSE IF a.k = b.k THEN a
    ELSE NaN

\* a - b on floats
FSub(a, b) == FAdd(a, FNeg(b))

(***************************************************************************)
(* round(balance * INTEREST_RATE, 2), in cents, for a balance c/100 + d*U  *)
(* that is not negative.  INTEREST_RATE is the double 0.015, which is      *)
(* 15/1000 - 8 U.  Unless 15*c/1000 lies exactly halfway between two cents *)
(* the nearest cent is the answer.  At a halfway point m the product is    *)
(* m + (3*d - 16*c)/200 U (less d * 2^-59 * 64/200 U, which only tells an  *)
(* exact tie apart); the multiplication rounds it to the grid of doubles   *)
(* around m, and round() then takes the cent on the side of m where that   *)
(* double lies (the even cent when the double is m itself).                *)
(***************************************************************************)
HalfCentsAtLeastPow2(h, e) ==
    IF e >= 0 THEN h >= 200 * Pow2(e) ELSE h * Pow2(0 - e) >= 200

RECURSIVE HalfCentsBinadeFrom(_, _)
HalfCentsBinadeFrom(h, e) ==
    IF e < HighestBinade /\ HalfCentsAtLeastPow2(h, e + 1)
    THEN HalfCentsBinadeFrom(h, e + 1)
    ELSE e

RoundInterestCents(c, d) ==
    LET q == (15 * c) \div 1000
        r == (15 * c) % 1000
        h == 2 * q + 1
        e == HalfCentsBinadeFrom(h, LowestBinade)
        rho == HalfCentsModGrid(h, e)
        rho2 == HalfCentsModGrid(h, e + 1)
        T == 200 * rho - 16 * c + 3 * d
        j0 == T \div (200 * Grid(e))
        rt == T % (200 * Grid(e))
        odd == (rho2 >= Grid(e)) # (j0 % 2 = 1)
        up == rt > 100 * Grid(e)
              \/ (rt = 100 * Grid(e) /\ (d < 0 \/ (d = 0 /\ odd)))
        j == IF up THEN j0 + 1 ELSE j0
    IN  IF r < 500 THEN q
        ELSE IF r > 500 THEN q + 1
        ELSE IF rho > 0 THEN (IF j >= 1 THEN q + 1 ELSE q)
        ELSE IF j > 0 THEN q + 1
        ELSE IF j < 0 THEN q
        ELSE IF q % 2 = 0 THEN q ELSE q + 1

InterestEarned(balance) ==
    IF balance.k # "fin" THEN balance
    ELSE IF balance.c < 0 \/ (balance.c = 0 /\ balance.d < 0)
    THEN FNeg(Fin(RoundInterestCents(0 - balance.c, 0 - balance.d)))
    ELSE Fin(RoundInterestCents(balance.c, balance.d))

(***************************************************************************)
(* Numbers in the data file.                                               *)
(*                                                                         *)
(* json.dump writes a float with float.__repr__: the decimal of the fewest *)
(* digits that float() reads back as the same double (and, of those, the   *)
(* nearest to it), never more than 17 significant digits; it writes nan    *)
(* and the infinities as NaN, Infinity and -Infinity.  json.load reads a   *)
(* decimal with float(), which gives the double nearest to the decimal,    *)
(* and the three words as the three values.                                *)
(*                                                                         *)
(* A decimal in the file is kept as the number it spells,                  *)
(*     c/100 + t/10^p,    p >= 2,                                          *)
(* whole cents and a tail of t units of the p-th decimal place: the text   *)
(* 0.39999999999999997 is 40 cents less 3 units of the 17th place.  In     *)
(* units of U the tail is t * 2^57 / 10^(p-2), which is not a whole        *)
(* number: the comparisons below are made on whole numbers too large for   *)
(* the machine's integers, kept as sequences of digits in base 10000, the  *)
(* lowest first.                                                           *)
(***************************************************************************)
Base == 10000
PowersOf10 == <<1, 10, 100, 1000>>

\* the digits of n >= 0
RECURSIVE Limbs(_)
Limbs(n) == IF n < Base THEN <<n>> ELSE <<n % Base>> \o Limbs(n \div Base)

\* the number with these digits
RECURSIVE LimbsValue(_)
LimbsValue(a) == IF a = <<>> THEN 0 ELSE Head(a) + Base * LimbsValue(Tail(a))

\* a * m + carry, for 0 < m <= Base
RECURSIVE LimbsTimes(_, _, _)
LimbsTimes(a, m, carry) ==
    IF a = <<>> THEN (IF carry = 0 THEN <<>> ELSE Limbs(carry))
    ELSE LET v == Head(a) * m + carry
         IN  <<v % Base>> \o LimbsTimes(Tail(a), m, v \div Base)

\* a * 2^n
RECURSIVE TimesPow2(_, _)
TimesPow2(a, n) ==
    IF n > 13 THEN TimesPow2(LimbsTimes(a, 8192, 0), n - 13)
    ELSE LimbsTimes(a, Pow2(n), 0)

\* a * 10^n
RECURSIVE TimesPow10(_, _)
TimesPow10(a, n) ==
    IF n >= 4 THEN TimesPow10(<<0>> \o a, n - 4)
    ELSE LimbsTimes(a, PowersOf10[n + 1], 0)

\* the quotient and the remainder of a by m, for 0 < m <= Base
RECURSIVE LimbsDividedBy(_, _)
LimbsDividedBy(a, m) ==
    IF a = <<>> THEN [q |-> <<>>, r |-> 0]
    ELSE LET hi == LimbsDividedBy(Tail(a), m)
             v == hi.r * Base + Head(a)
         IN  [q |-> <<v \div m>> \o hi.q, r |-> v % m]

\* floor(a / 2^n)
RECURSIVE OverPow2(_, _)
OverPow2(a, n) ==
    IF n > 13 THEN OverPow2(LimbsDividedBy(a, 8192).q, n - 13)
    ELSE LimbsDividedBy(a, Pow2(n)).q

\* floor(a / 10^n), and whether the division leaves no remainder
RECURSIVE OverPow10(_, _)
OverPow10(a, n) ==
    IF n = 0 THEN [q |-> a, exact |-> TRUE]
    ELSE LET k == IF n >= 4 THEN 4 ELSE n
             first == LimbsDividedBy(a, IF n >= 4 THEN Base ELSE PowersOf10[n + 1])
             rest == OverPow10(first.q, n - k)
         IN  [q |-> rest.q, exact |-> rest.exact /\ first.r = 0]

\* -1, 0 or 1 as a is less than, equal to or greater than b
RECURSIVE LimbsCompare(_, _)
LimbsCompare(a, b) ==
    IF a = <<>> /\ b = <<>> THEN 0
    ELSE LET ha == IF a = <<>> THEN 0 ELSE Head(a)
             hb == IF b = <<>> THEN 0 ELSE Head(b)
             hi == LimbsCompare(IF a = <<>> THEN a ELSE Tail(a),
                                IF b = <<>> THEN b ELSE Tail(b))
         IN  IF hi # 0 THEN hi
             ELSE IF ha < hb THEN 0 - 1
             ELSE IF ha > hb THEN 1
             ELSE 0

Abs(n) == IF n < 0 THEN 0 - n ELSE n

Decimal(c, t, p) == [k |-> "num", c |-> c, t |-> t, p |-> p]
NaNLiteral == [k |-> "NaN", c |-> 0, t |-> 0, p |-> 2]
InfinityLiteral == [k |-> "Infinity", c |-> 0, t |-> 0, p |-> 2]
NegInfinityLiteral == [k |-> "-Infinity", c |-> 0, t |-> 0, p |-> 2]

\* the text of a whole number of cents: "0.3", "1.0", "12.34"
Cents(n) == Decimal(n, 0, 2)

\* the most decimal places repr gives a double of 0.01 or more
ReprPlaces == 18

\* round(d * 10^(p-2) / 2^57), d >= 0: the multiple of 10^-p nearest to d U
NearestTail(d, p) ==
    LET N == TimesPow10(Limbs(d), p - 2)
        fl == LimbsValue(OverPow2(N, 57))
        up == LimbsCompare(LimbsTimes(N, 2, 0), TimesPow2(Limbs(2 * fl + 1), 57)) > 0
    IN  IF up THEN fl + 1 ELSE fl

\* t/10^p lies less than half a step of the doubles of binade e from d U
\* (t, d >= 0): a decimal that near is read back as that double.  A decimal
\* of so few places is never exactly halfway between two doubles.
WithinHalfGrid(d, t, p, e) ==
    LET A == TimesPow2(Limbs(2 * t), 57)
    IN  /\ LimbsCompare(A, TimesPow10(Limbs(2 * d + Grid(e)), p - 2)) < 0
        /\ \/ 2 * d < Grid(e)
           \/ LimbsCompare(TimesPow10(Limbs(2 * d - Grid(e)), p - 2), A) < 0

\* the shortest decimal of at least p places that reads back as c/100 + d*U
RECURSIVE ShortestFrom(_, _, _)
ShortestFrom(c, d, p) ==
    LET t == NearestTail(Abs(d), p)
    IN  IF p >= ReprPlaces \/ WithinHalfGrid(Abs(d), t, p, Binade(c, d))
        THEN Decimal(c, IF d < 0 THEN 0 - t ELSE t, p)
        ELSE ShortestFrom(c, d, p + 1)

\* float.__repr__ of c/100 + d*U >= 0
ReprMagnitude(c, d) ==
    IF 2 * Abs(d) < Grid(Binade(c, d)) THEN Cents(c)
    ELSE ShortestFrom(c, d, 3)

\* float_repr writing two decimal places, as '%.2f' does
float_repr_two_places(x) ==
    IF x.k = "nan" THEN NaNLiteral
    ELSE IF x.k = "inf" THEN InfinityLiteral
    ELSE IF x.k = "-inf" THEN NegInfinityLiteral
    ELSE Cents(x.c)

\* what json.dump writes for the float x
float_repr(x) ==
    IF x.k = "nan" THEN NaNLiteral
    ELSE IF x.k = "inf" THEN InfinityLiteral
    ELSE IF x.k = "-inf" THEN NegInfinityLiteral
    ELSE IF x.c < 0 \/ (x.c = 0 /\ x.d < 0)
    THEN LET m == ReprMagnitude(0 - x.c, 0 - x.d)
         IN  Decimal(0 - m.c, 0 - m.t, m.p)
    ELSE ReprMagnitude(x.c, x.d)

\* the double nearest to c/100 + (h + f)/2 U >= 0, where 0 <= f < 1 and
\* inexact says that f > 0
RoundHalves(c, h, inexact) ==
    LET e == Binade(c, h \div 2)
        rem == (2 * CentsModGrid(c, e) + h) % (2 * Grid(e))
        low == (h - rem) \div 2
        even == (CentsModGrid(c, e + 1) + low) % Grid(e + 1) = 0
        down == rem < Grid(e) \/ (rem = Grid(e) /\ ~inexact /\ even)
    IN  [k |-> "fin", c |-> c,
         d |-> IF down THEN low ELSE low + Grid(e)]

\* float(text) of the decimal c/100 + t/10^p >= 0
FloatOfMagnitude(c, t, p) ==
    IF t = 0 THEN RoundMagnitude(c, 0)
    ELSE LET n == OverPow10(TimesPow2(Limbs(2 * Abs(t)), 57), p - 2)
             q == LimbsValue(n.q)
             h == IF t > 0 THEN q ELSE IF n.exact THEN 0 - q ELSE 0 - q - 1
         IN  RoundHalves(c, h, ~n.exact)

\* what json.load reads from the literal
float_of_literal(literal) ==
    IF literal.k = "NaN" THEN NaN
    ELSE IF literal.k = "Infinity" THEN Inf
    ELSE IF literal.k = "-Infinity" THEN NegInf
    ELSE IF literal.c < 0 \/ (literal.c = 0 /\ literal.t < 0)
    THEN FNeg(FloatOfMagnitude(0 - literal.c, 0 - literal.t, literal.p))
    ELSE FloatOfMagnitude(literal.c, literal.t, literal.p)

\* what json.dump writes for the int n >= 0: its decimal digits
RECURSIVE int_repr(_)
int_repr(n) == IF n < 10 THEN <<n>> ELSE Append(int_repr(n \div 10), n % 10)

\* what json.load reads from the digits of a whole number
RECURSIVE int_of_literal(_)
int_of_literal(digits) ==
    IF Len(digits) = 1 THEN digits[1]
    ELSE 10 * int_of_literal(SubSeq(digits, 1, Len(digits) - 1)) + digits[Len(digits)]

\* a list of transaction records as json.dump writes it, and as json.load
\* reads it
JsonList(transactions) ==
    [i \in 1 .. Len(transactions) |->
        [transactions[i] EXCEPT !.amount = float_repr(@)]]

ListOfJson(list) ==
    [i \in 1 .. Len(list) |-> [list[i] EXCEPT !.amount = float_of_literal(@)]]

(***************************************************************************)
(* Passwords and their SHA-256 hashes.                                     *)
(***************************************************************************)
Passwords == {"a", "b"}
NoHash == "absent"

hash_password(p) == IF p = "a" THEN "sha256(a)" ELSE "sha256(b)"

verify_password(stored_hash, provided_password) ==
    stored_hash = hash_password(provided_password)

(***************************************************************************)
(* Account numbers.                                                        *)
(***************************************************************************)
\* generate_account_number without the loop that skips numbers in use
generate_account_number_unchecked(accs, n) ==
    [acc_num |-> n, next |-> n + 1]

RECURSIVE generate_account_number(_, _)
generate_account_number(accs, n) ==
    IF n \in DOMAIN accs
    THEN generate_account_number(accs, n + 1)
    ELSE [acc_num |-> n, next |-> n + 1]

NoAccounts == [a \in {} |-> 0]

\* record_transaction with the record inserted at the head of the log
record_transaction_at_head(accs, acc_num, tx) ==
    IF acc_num \notin DOMAIN accs THEN accs
    ELSE [accs EXCEPT ![acc_num].transactions = <<tx>> \o @]

\* record_transaction: append to the account's log, nothing if it is unknown
record_transaction(accs, acc_num, tx) ==
    IF acc_num \notin DOMAIN accs THEN accs
    ELSE [accs EXCEPT ![acc_num].transactions = Append(@, tx)]

find_account(accs, acc_num) == acc_num \in DOMAIN accs

\* authenticate_user giving up after the second password
authenticate_user_two_attempts(accs, acc_num, attempts) ==
    IF acc_num \notin DOMAIN accs THEN [ok |-> FALSE, prompts |-> 0]
    ELSE IF accs[acc_num].password_hash = NoHash THEN [ok |-> TRUE, prompts |-> 0]
    ELSE IF verify_password(accs[acc_num].password_hash, attempts[1])
         THEN [ok |-> TRUE, prompts |-> 1]
    ELSE IF verify_password(accs[acc_num].password_hash, attempts[2])
         THEN [ok |-> TRUE, prompts |-> 2]
    ELSE [ok |-> FALSE, prompts |-> 2]

(***************************************************************************)
(* authenticate_user: attempts is the sequence of the three passwords the  *)
(* user would type.  The result says whether access is granted and how     *)
(* many passwords were asked for.                                          *)
(***************************************************************************)
authenticate_user(accs, acc_num, attempts) ==
    IF ~find_account(accs, acc_num) THEN [ok |-> FALSE, prompts |-> 0]
    ELSE IF accs[acc_num].password_hash = NoHash THEN [ok |-> TRUE, prompts |-> 0]
    ELSE IF verify_password(accs[acc_num].password_hash, attempts[1])
         THEN [ok |-> TRUE, prompts |-> 1]
    ELSE IF verify_password(accs[acc_num].password_hash, attempts[2])
         THEN [ok |-> TRUE, prompts |-> 2]
    ELSE IF verify_password(accs[acc_num].password_hash, attempts[3])
         THEN [ok |-> TRUE, prompts |-> 3]
    ELSE [ok |-> FALSE, prompts |-> 3]

(***************************************************************************)
(* The data file.  Its content is one of: no file, content the model does  *)
(* not know (of a file the program did not write and cannot read), text    *)
(* that is not JSON (a truncated write, say), or a JSON object that may or *)
(* may not hold the two top-level fields.  An account object in the file   *)
(* may lack a "transactions" list (tx_list = FALSE) and may lack           *)
(* "password_hash" (NoHash).  The numbers of a JSON object are text: a     *)
(* decimal or one of json's three words for a balance or an amount, the    *)
(* digits of a whole number for the counter.                               *)
(*                                                                         *)
(* access is what the operating system lets the process do at the path     *)
(* DATA_FILE: "rw" (open it for reading and for writing), "w" (for writing *)
(* only: a file without read permission) or "none" (neither: a file        *)
(* without any permission, or a directory of that name).  A save does not  *)
(* change it.                                                              *)
(***************************************************************************)
MissingFile ==
    [kind |-> "missing", access |-> "rw", has_accounts |-> FALSE,
     has_next |-> FALSE, accounts |-> NoAccounts, next_account_number |-> <<0>>]

CorruptFile ==
    [kind |-> "corrupt", access |-> "rw", has_accounts |-> FALSE,
     has_next |-> FALSE, accounts |-> NoAccounts, next_account_number |-> <<0>>]

\* a file the process may write but not read
UnreadableFile ==
    [kind |-> "unreadable", access |-> "w", has_accounts |-> FALSE,
     has_next |-> FALSE, accounts |-> NoAccounts, next_account_number |-> <<0>>]

\* a path the process may neither read nor write
InaccessibleFile ==
    [kind |-> "unreadable", access |-> "none", has_accounts |-> FALSE,
     has_next |-> FALSE, accounts |-> NoAccounts, next_account_number |-> <<0>>]

\* json.dump({"accounts": accounts, "next_account_number": n}, f, indent=4).
\* The account numbers are strings in memory (str(next_account_number)) and
\* a string key is written as it is; so is the hash, a string of hex digits.
JsonDump(accs, n) ==
    [kind |-> "json", access |-> "rw", has_accounts |-> TRUE, has_next |-> TRUE,
     accounts |-> [a \in DOMAIN accs |->
                    [balance |-> float_repr(accs[a].balance),
                     password_hash |-> accs[a].password_hash,
                     tx_list |-> TRUE,
                     transactions |-> JsonList(accs[a].transactions)]],
     next_account_number |-> int_repr(n)]

EmptyLedger == [accounts |-> NoAccounts, next_account_number |-> StartAccountNumber]

\* load_banking_data with the fix-up applied to every account
load_banking_data_resets_logs(f) ==
    IF f.kind = "missing" THEN EmptyLedger           \* os.path.exists
    ELSE IF f.access # "rw" THEN EmptyLedger         \* open raises IOError
    ELSE IF f.kind # "json" THEN EmptyLedger         \* JSONDecodeError
    ELSE IF ~(f.has_accounts /\ f.has_next) THEN EmptyLedger
    ELSE [accounts |-> [a \in DOMAIN f.accounts |->
                         [balance |-> float_of_literal(f.accounts[a].balance),
                          password_hash |-> f.accounts[a].password_hash,
                          transactions |-> <<>>]],
          next_account_number |-> int_of_literal(f.next_account_number)]

\* load_banking_data without the test for the two top-level fields
load_banking_data_unvalidated(f) ==
    IF f.kind = "missing" THEN EmptyLedger
    ELSE IF f.access # "rw" THEN EmptyLedger
    ELSE IF f.kind # "json" THEN EmptyLedger
    ELSE [accounts |-> [a \in DOMAIN f.accounts |->
                         [balance |-> float_of_literal(f.accounts[a].balance),
                          password_hash |-> f.accounts[a].password_hash,
                          transactions |-> IF f.accounts[a].tx_list
                                           THEN ListOfJson(f.accounts[a].transactions)
                                           ELSE <<>>]],
          next_account_number |-> int_of_literal(f.next_account_number)]

\* load_banking_data: the ledger the program holds after loading file f
load_banking_data(f) ==
    IF f.kind = "missing" THEN EmptyLedger           \* os.path.exists
    ELSE IF f.access # "rw" THEN EmptyLedger         \* open raises IOError
    ELSE IF f.kind # "json" THEN EmptyLedger         \* JSONDecodeError
    ELSE IF ~(f.has_accounts /\ f.has_next) THEN EmptyLedger
    ELSE [accounts |-> [a \in DOMAIN f.accounts |->
                         [balance |-> float_of_literal(f.accounts[a].balance),
                          password_hash |-> f.accounts[a].password_hash,
                          transactions |-> IF f.accounts[a].tx_list
                                           THEN ListOfJson(f.accounts[a].transactions)
                                           ELSE <<>>]],
          next_account_number |-> int_of_literal(f.next_account_number)]

(***************************************************************************)
(* save_banking_data.  open(DATA_FILE, 'w') truncates the file before      *)
(* json.dump writes; both can raise, and both exceptions are caught and    *)
(* reported.  outcome: "ok", "open_failed" (the file is left as it was),   *)
(* "write_failed" (the file is left truncated, or holding partial JSON).   *)
(* Writing replaces the content of the file and leaves what the process    *)
(* may do with it as it was; a file that did not exist is created readable *)
(* and writable.  At a path the process may not write, open fails.         *)
(***************************************************************************)
SaveOutcomes == {"ok", "open_failed", "write_failed"}

save_banking_data(f, accs, n, outcome) ==
    IF outcome = "open_failed" \/ f.access = "none" THEN f
    ELSE IF outcome = "ok" THEN [JsonDump(accs, n) EXCEPT !.access = f.access]
    ELSE [CorruptFile EXCEPT !.access = f.access]

(***************************************************************************)
(* The handlers as functions of the ledger and the user's input.  Each     *)
(* gives the outcome, the ledger after the handler and the number of       *)
(* save_banking_data() calls the handler makes on that path.               *)
(***************************************************************************)
Outcome(result, accs, n, saves, prompts) ==
    [result |-> result, accounts |-> accs, next |-> n,
     saves |-> saves, prompts |-> prompts]

\* create_new_account recording the initial deposit whatever its amount
create_new_account_always_recording(accs, n, name_blank, password, initial_deposit) ==
    IF name_blank THEN Outcome("blank_name", accs, n, 0, 0)
    ELSE
      LET g == generate_account_number(accs, n)
          a1 == [x \in DOMAIN accs \cup {g.acc_num} |->
                   IF x = g.acc_num
                   THEN [balance |-> initial_deposit,
                         password_hash |-> hash_password(password),
                         transactions |-> <<>>]
                   ELSE accs[x]]
          a2 == record_transaction(a1, g.acc_num,
                    [type |-> "Initial Deposit", amount |-> initial_deposit])
      IN  Outcome("ok", a2, g.next, 1, 0)

create_new_account(accs, n, name_blank, password, initial_deposit) ==
    IF name_blank THEN Outcome("blank_name", accs, n, 0, 0)
    ELSE
      LET g == generate_account_number(accs, n)
          a1 == [x \in DOMAIN accs \cup {g.acc_num} |->
                   IF x = g.acc_num
                   THEN [balance |-> initial_deposit,
                         password_hash |-> hash_password(password),
                         transactions |-> <<>>]
                   ELSE accs[x]]
          a2 == IF FGt(initial_deposit, Zero)
                THEN record_transaction(a1, g.acc_num,
                        [type |-> "Initial Deposit", amount |-> initial_deposit])
                ELSE a1
      IN  Outcome("ok", a2, g.next, 1, 0)

\* make_deposit without its save_banking_data() call
make_deposit_unsaved(accs, n, acc_num, attempts, amount) ==
    LET au == authenticate_user(accs, acc_num, attempts) IN
    IF ~au.ok THEN Outcome("auth_failed", accs, n, 0, au.prompts)
    ELSE
      LET a1 == [accs EXCEPT ![acc_num].balance = FAdd(@, amount)]
          a2 == record_transaction(a1, acc_num,
                    [type |-> "Deposit", amount |-> amount])
      IN  Outcome("ok", a2, n, 0, au.prompts)

make_deposit(accs, n, acc_num, attempts, amount) ==
    LET au == authenticate_user(accs, acc_num, attempts) IN
    IF ~au.ok THEN Outcome("auth_failed", accs, n, 0, au.prompts)
    ELSE
      LET a1 == [accs EXCEPT ![acc_num].balance = FAdd(@, amount)]
          a2 == record_transaction(a1, acc_num,
                    [type |-> "Deposit", amount |-> amount])
      IN  Outcome("ok", a2, n, 1, au.prompts)

\* make_withdrawal going on whatever authenticate_user returned
make_withdrawal_ignoring_authentication(accs, n, acc_num, attempts, amount) ==
    LET au == authenticate_user(accs, acc_num, attempts) IN
    IF ~find_account(accs, acc_num) THEN Outcome("auth_failed", accs, n, 0, au.prompts)
    ELSE IF FGt(amount, accs[acc_num].balance)
    THEN Outcome("insufficient", accs, n, 0, au.prompts)
    ELSE
      LET a1 == [accs EXCEPT ![acc_num].balance = FSub(@, amount)]
          a2 == record_transaction(a1, acc_num,
                    [type |-> "Withdrawal", amount |-> amount])
      IN  Outcome("ok", a2, n, 1, au.prompts)

\* make_withdrawal without the check for sufficient funds
make_withdrawal_unchecked(accs, n, acc_num, attempts, amount) ==
    LET au == authenticate_user(accs, acc_num, attempts) IN
    IF ~au.ok THEN Outcome("auth_failed", accs, n, 0, au.prompts)
    ELSE
      LET a1 == [accs EXCEPT ![acc_num].balance = FSub(@, amount)]
          a2 == record_transaction(a1, acc_num,
                    [type |-> "Withdrawal", amount |-> amount])
      IN  Outcome("ok", a2, n, 1, au.prompts)

make_withdrawal(accs, n, acc_num, attempts, amount) ==
    LET au == authenticate_user(accs, acc_num, attempts) IN
    IF ~au.ok THEN Outcome("auth_failed", accs, n, 0, au.prompts)
    ELSE IF FGt(amount, accs[acc_num].balance)
    THEN Outcome("insufficient", accs, n, 0, au.prompts)
    ELSE
      LET a1 == [accs EXCEPT ![acc_num].balance = FSub(@, amount)]
          a2 == record_transaction(a1, acc_num,
                    [type |-> "Withdrawal", amount |-> amount])
      IN  Outcome("ok", a2, n, 1, au.prompts)

\* display_balance putting a record in the log when the passwords were wrong
display_balance_recording_failures(accs, n, acc_num, attempts) ==
    LET au == authenticate_user(accs, acc_num, attempts) IN
    IF ~au.ok
    THEN Outcome("auth_failed",
                 record_transaction(accs, acc_num,
                     [type |-> "Failed Login", amount |-> Zero]),
                 n, 0, au.prompts)
    ELSE Outcome("shown", accs, n, 0, au.prompts)

display_balance(accs, n, acc_num, attempts) ==
    LET au == authenticate_user(accs, acc_num, attempts) IN
    IF ~au.ok THEN Outcome("auth_failed", accs, n, 0, au.prompts)
    ELSE Outcome("shown", accs, n, 0, au.prompts)

display_transaction_history(accs, n, acc_num, attempts) ==
    LET au == authenticate_user(accs, acc_num, attempts) IN
    IF ~au.ok THEN Outcome("auth_failed", accs, n, 0, au.prompts)
    ELSE Outcome("shown", accs, n, 0, au.prompts)

\* transfer_funds debiting the source before it looks for the recipient
transfer_funds_debit_first(accs, n, source_acc_num, attempts, dest_acc_num, amount) ==
    LET au == authenticate_user(accs, source_acc_num, attempts) IN
    IF ~au.ok THEN Outcome("auth_failed", accs, n, 0, au.prompts)
    ELSE IF source_acc_num = dest_acc_num
    THEN Outcome("same_account", accs, n, 0, au.prompts)
    ELSE IF FGt(amount, accs[source_acc_num].balance)
    THEN Outcome("insufficient", accs, n, 0, au.prompts)
    ELSE
      LET a1 == [accs EXCEPT ![source_acc_num].balance = FSub(@, amount)]
      IN  IF ~find_account(a1, dest_acc_num)
          THEN Outcome("no_recipient", a1, n, 0, au.prompts)
          ELSE
            LET a2 == [a1 EXCEPT ![dest_acc_num].balance = FAdd(@, amount)]
                a3 == record_transaction(a2, source_acc_num,
                          [type |-> "Transfer Sent", amount |-> amount,
                           to_account |-> dest_acc_num])
                a4 == record_transaction(a3, dest_acc_num,
                          [type |-> "Transfer Received", amount |-> amount,
                           from_account |-> source_acc_num])
            IN  Outcome("ok", a4, n, 1, au.prompts)

transfer_funds(accs, n, source_acc_num, attempts, dest_acc_num, amount) ==
    LET au == authenticate_user(accs, source_acc_num, attempts) IN
    IF ~au.ok THEN Outcome("auth_failed", accs, n, 0, au.prompts)
    ELSE IF source_acc_num = dest_acc_num
    THEN Outcome("same_account", accs, n, 0, au.prompts)
    ELSE IF ~find_account(accs, dest_acc_num)
    THEN Outcome("no_recipient", accs, n, 0, au.prompts)
    ELSE IF FGt(amount, accs[source_acc_num].balance)
    THEN Outcome("insufficient", accs, n, 0, au.prompts)
    ELSE
      LET a1 == [accs EXCEPT ![source_acc_num].balance = FSub(@, amount)]
          a2 == [a1 EXCEPT ![dest_acc_num].balance = FAdd(@, amount)]
          a3 == record_transaction(a2, source_acc_num,
                    [type |-> "Transfer Sent", amount |-> amount,
                     to_account |-> dest_acc_num])
          a4 == record_transaction(a3, dest_acc_num,
                    [type |-> "Transfer Received", amount |-> amount,
                     from_account |-> source_acc_num])
      IN  Outcome("ok", a4, n, 1, au.prompts)

\* the body of the loop of apply_interest_to_all_accounts, for one account
InterestApplies(account_data) ==
    /\ FGt(account_data.balance, Zero)
    /\ FGt(InterestEarned(account_data.balance), Zero)

\* the loop body without the test `if interest_earned > 0`
InterestOnEveryPositiveBalance(account_data) ==
    IF FGt(account_data.balance, Zero)
    THEN [account_data EXCEPT
            !.balance = FAdd(@, InterestEarned(account_data.balance)),
            !.transactions = Append(@,
                [type |-> "Interest Applied",
                 amount |-> InterestEarned(account_data.balance)])]
    ELSE account_data

InterestOn(account_data) ==
    IF InterestApplies(account_data)
    THEN [account_data EXCEPT
            !.balance = FAdd(@, InterestEarned(account_data.balance)),
            !.transactions = Append(@,
                [type |-> "Interest Applied",
                 amount |-> InterestEarned(account_data.balance)])]
    ELSE account_data

\* apply_interest_to_all_accounts saving whether or not anything was applied
apply_interest_always_saving(accs, n) ==
    IF DOMAIN accs = {} THEN Outcome("no_accounts", accs, n, 0, 0)
    ELSE
      LET applied_count == Cardinality({a \in DOMAIN accs : InterestApplies(accs[a])})
          a1 == [a \in DOMAIN accs |-> InterestOn(accs[a])]
      IN  IF applied_count > 0
          THEN Outcome("ok", a1, n, 1, 0)
          ELSE Outcome("none_applied", a1, n, 1, 0)

apply_interest_to_all_accounts(accs, n) ==
    IF DOMAIN accs = {} THEN Outcome("no_accounts", accs, n, 0, 0)
    ELSE
      LET applied_count == Cardinality({a \in DOMAIN accs : InterestApplies(accs[a])})
          a1 == [a \in DOMAIN accs |-> InterestOn(accs[a])]
      IN  IF applied_count > 0
          THEN Outcome("ok", a1, n, 1, 0)
          ELSE Outcome("none_applied", a1, n, 0, 0)

(***************************************************************************)
(* What the user can type.                                                 *)
(***************************************************************************)
AccountInputs == StartAccountNumber .. (StartAccountNumber + MaxAccounts)
AttemptInputs == {<<"a", "a", "a">>, <<"b", "b", "a">>, <<"b", "b", "b">>}
NewPasswordInputs == {"a"}
AmountInputs == {Fin(0 - 30), Zero, Fin(30), Inf, NaN}

\* the number of accounts plus the number of records in their logs
RECURSIVE Size(_)
Size(accs) ==
    IF DOMAIN accs = {} THEN 0
    ELSE LET a == CHOOSE x \in DOMAIN accs : TRUE
         IN  1 + Len(accs[a].transactions)
               + Size([x \in DOMAIN accs \ {a} |-> accs[x]])

\* The model follows the ledger only while it stays within the bounds: a
\* session opens an account only while that leaves at most MaxAccounts.
Bounded(accs) ==
    /\ DOMAIN accs # DOMAIN accounts => Cardinality(DOMAIN accs) <= MaxAccounts
    /\ Size(accs) <= MaxSize
    /\ \A a \in DOMAIN accs :
          accs[a].balance.k = "fin" => accs[a].balance.c <= MaxCents

(***************************************************************************)
(* Files a session can find at startup that the program did not write.     *)
(***************************************************************************)
\* an account from an older version, with no password hash and no transaction
\* list, and a counter that is not above the account number in use
LegacyFile ==
    [kind |-> "json", access |-> "rw", has_accounts |-> TRUE, has_next |-> TRUE,
     accounts |-> ((StartAccountNumber + 1) :>
                     [balance |-> Cents(100), password_hash |-> NoHash,
                      tx_list |-> FALSE, transactions |-> <<>>]),
     next_account_number |-> int_repr(StartAccountNumber + 1)]

\* valid JSON without the "next_account_number" field
NoCounterFile ==
    [kind |-> "json", access |-> "rw", has_accounts |-> TRUE, has_next |-> FALSE,
     accounts |-> (StartAccountNumber :>
                     [balance |-> Cents(25), password_hash |-> hash_password("a"),
                      tx_list |-> TRUE,
                      transactions |-> <<[type |-> "Initial Deposit",
                                          amount |-> Cents(25)]>>]),
     next_account_number |-> <<0>>]

\* valid JSON without the "accounts" field
NoAccountsFile ==
    [kind |-> "json", access |-> "rw", has_accounts |-> FALSE, has_next |-> TRUE,
     accounts |-> NoAccounts,
     next_account_number |-> int_repr(StartAccountNumber + 4)]

InitialFiles ==
    {MissingFile, CorruptFile, LegacyFile, NoCounterFile, NoAccountsFile}

\* three accounts from the older version, holding 1.00, 0.30 and nothing
BranchFile ==
    [kind |-> "json", access |-> "rw", has_accounts |-> TRUE, has_next |-> TRUE,
     accounts |-> [a \in StartAccountNumber .. (StartAccountNumber + 2) |->
                     [balance |-> IF a = StartAccountNumber THEN Cents(100)
                                  ELSE IF a = StartAccountNumber + 1 THEN Cents(30)
                                  ELSE Cents(0),
                      password_hash |-> NoHash,
                      tx_list |-> FALSE, transactions |-> <<>>]],
     next_account_number |-> int_repr(StartAccountNumber + 3)]

\* Files the process may not read.
RestrictedFiles == {UnreadableFile, InaccessibleFile}

\* What the latest handler did: which handler, how it ended, the number of
\* saves it called, the number of passwords it asked for and, of a handler
\* that completed, the input it acted on.
Observed(op, result, acc, dest, amount, saves, prompts) ==
    [op |-> op, result |-> result, acc |-> acc, dest |-> dest,
     amount |-> amount, saves |-> saves, prompts |-> prompts]

NothingObserved == Observed("none", "none", 0, 0, Zero, 0, 0)

(***************************************************************************)
(* The program.                                                            *)
(***************************************************************************)
Init ==
    /\ accounts = NoAccounts
    /\ next_account_number = StartAccountNumber
    /\ file \in InitialFiles
    /\ pc = "start"
    /\ saveOk = TRUE
    /\ saveFailuresLeft = 0
    /\ last = NothingObserved

\* run_bank, line 433
LoadBankingData ==
    /\ pc = "start"
    /\ accounts' = load_banking_data(file).accounts
    /\ next_account_number' = load_banking_data(file).next_account_number
    /\ pc' = "menu"
    /\ last' = NothingObserved
    /\ UNCHANGED <<file, saveOk, saveFailuresLeft>>

\* The outcomes a save attempt can have in this state: at a path the process
\* may not write every open fails; elsewhere a save fails only while the
\* environment has failures left to inject.
PossibleSaveOutcomes ==
    IF file.access = "none" THEN {"open_failed"}
    ELSE IF saveFailuresLeft > 0 THEN SaveOutcomes
    ELSE {"ok"}

\* the failures left to inject after a save attempt with this outcome
FailuresLeftAfter(outcome) ==
    IF outcome = "ok" \/ file.access = "none" THEN saveFailuresLeft
    ELSE saveFailuresLeft - 1

\* One turn of the menu loop in which a save that fails undoes the handler's
\* changes to the ledger.
Handle_rolling_back(op, r, acc, dest, amount) ==
    /\ pc = "menu"
    /\ Bounded(r.accounts)
    /\ IF r.saves > 0
       THEN \E outcome \in PossibleSaveOutcomes :
               /\ file' = save_banking_data(file, r.accounts, r.next, outcome)
               /\ saveOk' = (outcome = "ok")
               /\ saveFailuresLeft' = FailuresLeftAfter(outcome)
               /\ accounts' = IF outcome = "ok" THEN r.accounts ELSE accounts
               /\ next_account_number' = IF outcome = "ok" THEN r.next
                                         ELSE next_account_number
       ELSE /\ accounts' = r.accounts
            /\ next_account_number' = r.next
            /\ UNCHANGED <<file, saveOk, saveFailuresLeft>>
    /\ pc' = "pause"
    /\ last' = IF r.result = "ok"
               THEN Observed(op, r.result, acc, dest, amount, r.saves, r.prompts)
               ELSE Observed(op, r.result, 0, 0, Zero, r.saves, r.prompts)

\* One turn of the menu loop: the handler's outcome r becomes the state, and
\* the file is written once for each save the handler calls.
Handle(op, r, acc, dest, amount) ==
    /\ pc = "menu"
    /\ Bounded(r.accounts)
    /\ accounts' = r.accounts
    /\ next_account_number' = r.next
    /\ IF r.saves > 0
       THEN \E outcome \in PossibleSaveOutcomes :
               /\ file' = save_banking_data(file, r.accounts, r.next, outcome)
               /\ saveOk' = (outcome = "ok")
               /\ saveFailuresLeft' = FailuresLeftAfter(outcome)
       ELSE UNCHANGED <<file, saveOk, saveFailuresLeft>>
    /\ pc' = "pause"
    /\ last' = IF r.result = "ok"
               THEN Observed(op, r.result, acc, dest, amount, r.saves, r.prompts)
               ELSE Observed(op, r.result, 0, 0, Zero, r.saves, r.prompts)

CreateNewAccount ==
    \E name_blank \in BOOLEAN, password \in NewPasswordInputs,
       initial_deposit \in AmountInputs :
        /\ ~FLt(initial_deposit, Zero)      \* the prompt repeats until then
        /\ LET r == create_new_account(accounts, next_account_number,
                                       name_blank, password, initial_deposit)
           IN  Handle("create", r,
                      generate_account_number(accounts, next_account_number).acc_num,
                      0, initial_deposit)

MakeDeposit ==
    \E acc_num \in AccountInputs, attempts \in AttemptInputs,
       amount \in AmountInputs :
        /\ FGt(amount, Zero)                \* the prompt repeats until then
        /\ Handle("deposit",
                  make_deposit(accounts, next_account_number, acc_num, attempts, amount),
                  acc_num, 0, amount)

MakeWithdrawal ==
    \E acc_num \in AccountInputs, attempts \in AttemptInputs,
       amount \in AmountInputs :
        /\ FGt(amount, Zero)
        /\ Handle("withdraw",
                  make_withdrawal(accounts, next_account_number, acc_num, attempts, amount),
                  acc_num, 0, amount)

DisplayBalance ==
    \E acc_num \in AccountInputs, attempts \in AttemptInputs :
        Handle("balance",
               display_balance(accounts, next_account_number, acc_num, attempts),
               acc_num, 0, Zero)

DisplayTransactionHistory ==
    \E acc_num \in AccountInputs, attempts \in AttemptInputs :
        Handle("history",
               display_transaction_history(accounts, next_account_number, acc_num, attempts),
               acc_num, 0, Zero)

TransferFunds ==
    \E source_acc_num \in AccountInputs, attempts \in AttemptInputs,
       dest_acc_num \in AccountInputs, amount \in AmountInputs :
        /\ FGt(amount, Zero)
        /\ Handle("transfer",
                  transfer_funds(accounts, next_account_number, source_acc_num,
                                 attempts, dest_acc_num, amount),
                  source_acc_num, dest_acc_num, amount)

ApplyInterest ==
    Handle("interest",
           apply_interest_to_all_accounts(accounts, next_account_number),
           0, 0, Zero)

\* choice '8': one more save, then the loop ends
Exit ==
    \E outcome \in PossibleSaveOutcomes :
        /\ pc = "menu"
        /\ file' = save_banking_data(file, accounts, next_account_number, outcome)
        /\ saveOk' = (outcome = "ok")
        /\ saveFailuresLeft' = FailuresLeftAfter(outcome)
        /\ pc' = "exited"
        /\ last' = Observed("exit", "ok", 0, 0, Zero, 1, 0)
        /\ UNCHANGED <<accounts, next_account_number>>

\* any other choice
InvalidChoice ==
    /\ pc = "menu"
    /\ pc' = "pause"
    /\ last' = Observed("invalid", "none", 0, 0, Zero, 0, 0)
    /\ UNCHANGED <<accounts, next_account_number, file, saveOk, saveFailuresLeft>>

\* line 463: Enter is pressed and the menu is shown again
Continue ==
    /\ pc = "pause"
    /\ pc' = "menu"
    /\ last' = NothingObserved
    /\ UNCHANGED <<accounts, next_account_number, file, saveOk, saveFailuresLeft>>

\* the program is started again: the module is initialised anew
Restart ==
    /\ pc = "exited"
    /\ accounts' = NoAccounts
    /\ next_account_number' = StartAccountNumber
    /\ pc' = "start"
    /\ saveOk' = TRUE
    /\ last' = NothingObserved
    /\ UNCHANGED <<file, saveFailuresLeft>>

Next ==
    \/ LoadBankingData
    \/ CreateNewAccount
    \/ MakeDeposit
    \/ MakeWithdrawal
    \/ DisplayBalance
    \/ DisplayTransactionHistory
    \/ TransferFunds
    \/ ApplyInterest
    \/ Exit
    \/ InvalidChoice
    \/ Continue
    \/ Restart

\* The same program on a disk where one save can fail.
InitIO ==
    /\ accounts = NoAccounts
    /\ next_account_number = StartAccountNumber
    /\ file \in InitialFiles
    /\ pc = "start"
    /\ saveOk = TRUE
    /\ saveFailuresLeft = MaxSaveFailures
    /\ last = NothingObserved

\* The same program where the data file may also be one the process is not
\* allowed to read.
InitAccess ==
    /\ accounts = NoAccounts
    /\ next_account_number = StartAccountNumber
    /\ file \in InitialFiles \cup RestrictedFiles
    /\ pc = "start"
    /\ saveOk = TRUE
    /\ saveFailuresLeft = 0
    /\ last = NothingObserved

\* The same program where the data file may also be one that holds three
\* accounts.
InitBranch ==
    /\ accounts = NoAccounts
    /\ next_account_number = StartAccountNumber
    /\ file \in InitialFiles \cup {BranchFile}
    /\ pc = "start"
    /\ saveOk = TRUE
    /\ saveFailuresLeft = 0
    /\ last = NothingObserved

\* The program started in a directory with no data file: an empty ledger.
InitFresh ==
    /\ accounts = NoAccounts
    /\ next_account_number = StartAccountNumber
    /\ file = MissingFile
    /\ pc = "start"
    /\ saveOk = TRUE
    /\ saveFailuresLeft = 0
    /\ last = NothingObserved

Spec == Init /\ [][Next]_vars

SpecFresh == InitFresh /\ [][Next]_vars

SpecIO == InitIO /\ [][Next]_vars

SpecAccess == InitAccess /\ [][Next]_vars

SpecBranch == InitBranch /\ [][Next]_vars

(***************************************************************************)
(* Definitions the properties use.                                         *)
(***************************************************************************)
Credits == {"Initial Deposit", "Deposit", "Transfer Received", "Interest Applied"}

\* the sum of a log's amounts, each signed by its kind, added in log order
RECURSIVE NetSum(_)
NetSum(log) ==
    IF log = <<>> THEN Zero
    ELSE LET n == Len(log)
             before == NetSum(SubSeq(log, 1, n - 1))
         IN  IF log[n].type \in Credits
             THEN FAdd(before, log[n].amount)
             ELSE FSub(before, log[n].amount)

IsPrefix(s, t) == Len(s) <= Len(t) /\ SubSeq(t, 1, Len(s)) = s

AllAttempts == [1..3 -> Passwords]
PositiveAmounts == {a \in AmountInputs : FGt(a, Zero)}
Ledger == [accounts |-> accounts, next_account_number |-> next_account_number]

(***************************************************************************)
(* C1.  No overdraft: starting from an empty ledger, every account's       *)
(* balance is >= 0 in every reachable state.                               *)
(* Checked under SpecFresh.  It does not hold: float("nan") passes the     *)
(* test `initial_deposit < 0`, the account is opened with balance nan, and *)
(* `amount > balance` is then False for every amount.                      *)
(***************************************************************************)
C1_NoOverdraft ==
    \A a \in DOMAIN accounts : FGe(accounts[a].balance, Zero)

(***************************************************************************)
(* C2.  In every reachable state, each account's balance equals the net    *)
(* sum of the amounts in its own transaction log, signed by kind; states   *)
(* entered by load_banking_data and its fix-up included.                   *)
(* It does not hold: an account opened with nan has an empty log, and the  *)
(* fix-up gives a loaded account an empty log whatever its balance.        *)
(***************************************************************************)
C2_BalanceIsNetSumOfLog ==
    \A a \in DOMAIN accounts :
        accounts[a].balance = NetSum(accounts[a].transactions)

(***************************************************************************)
(* C3.  A failed transfer modifies nothing: a transfer_funds step that     *)
(* ends on a failure path (authentication fails or the source is unknown,  *)
(* destination equal to the source, destination unknown, amount greater    *)
(* than the source balance) leaves every account's balance and log, the    *)
(* counter and the file as they were, and calls no save.                   *)
(***************************************************************************)
TransferFailures == {"auth_failed", "same_account", "no_recipient", "insufficient"}

C3_FailedTransferModifiesNothing ==
    [][ (last'.op = "transfer" /\ last'.result \in TransferFailures) =>
              /\ accounts' = accounts
              /\ next_account_number' = next_account_number
              /\ file' = file
              /\ last'.saves = 0
      ]_vars

\* a transfer has just been refused for insufficient funds, between two
\* existing accounts
C3_Witness ==
    /\ last.op = "transfer"
    /\ last.result = "insufficient"
    /\ Cardinality(DOMAIN accounts) = 2

(***************************************************************************)
(* C4.  A successful transfer of a > 0 from S to a different existing      *)
(* account D, with a <= S.balance, decreases S.balance by exactly a,       *)
(* increases D.balance by exactly a, appends one 'Transfer Sent' record    *)
(* (amount a, to_account D) to S's log and one 'Transfer Received' record  *)
(* (amount a, from_account S) to D's log, and changes no other account.    *)
(* "By exactly a" is meant of the numbers: the new balance of S is the     *)
(* number S.balance - a and the new balance of D the number D.balance + a. *)
(* It does not hold: float() reads "inf" as an amount, `amount > balance`  *)
(* is False for a balance of inf, and the transfer leaves the source with  *)
(* inf - inf = nan; and `-=` and `+=` round, so a transfer of 0.3 out of   *)
(* 1.0 leaves the double 0.7, which is not 1.0 less the amount.  Checked   *)
(* under SpecBranch, where a third account stands by.                      *)
(***************************************************************************)
NoNumber == [k |-> "none", c |-> 0, d |-> 0]

\* x + y as numbers, nothing rounded: the exact sum of two finite doubles
\* (which need not be a double), an infinity, or no number at all (a nan,
\* the sum of opposite infinities)
ExactSum(x, y) ==
    IF x.k = "nan" \/ y.k = "nan" THEN NoNumber
    ELSE IF x.k = "fin" /\ y.k = "fin"
    THEN [k |-> "fin", c |-> x.c + y.c, d |-> x.d + y.d]
    ELSE IF x.k = "fin" THEN y
    ELSE IF y.k = "fin" \/ x.k = y.k THEN x
    ELSE NoNumber

C4_SuccessfulTransfer ==
    [][ (/\ last'.op = "transfer"
         /\ last'.result = "ok"
         /\ FGe(accounts[last'.acc].balance, last'.amount)) =>
           LET S == last'.acc
               D == last'.dest
               a == last'.amount
           IN  /\ FGt(a, Zero)
               /\ S # D
               /\ {S, D} \subseteq DOMAIN accounts
               /\ DOMAIN accounts' = DOMAIN accounts
               /\ accounts'[S] =
                    [accounts[S] EXCEPT
                       !.balance = ExactSum(@, FNeg(a)),
                       !.transactions = Append(@,
                           [type |-> "Transfer Sent", amount |-> a, to_account |-> D])]
               /\ accounts'[D] =
                    [accounts[D] EXCEPT
                       !.balance = ExactSum(@, a),
                       !.transactions = Append(@,
                           [type |-> "Transfer Received", amount |-> a, from_account |-> S])]
               /\ \A x \in DOMAIN accounts \ {S, D} : accounts'[x] = accounts[x]
      ]_vars

(***************************************************************************)
(* C5.  make_withdrawal with an amount greater than the account's balance  *)
(* reports insufficient funds, leaves that account's balance and log and   *)
(* every other account unchanged, and performs no save.                    *)
(***************************************************************************)
C5_OverdrawnWithdrawalRefused ==
    pc = "menu" =>
        \A acc \in DOMAIN accounts, att \in AllAttempts, amt \in PositiveAmounts :
            LET au == authenticate_user(accounts, acc, att)
                r == make_withdrawal(accounts, next_account_number, acc, att, amt)
            IN  (au.ok /\ FGt(amt, accounts[acc].balance)) =>
                    /\ r.result = "insufficient"
                    /\ r.accounts = accounts
                    /\ r.next = next_account_number
                    /\ r.saves = 0

\* a withdrawal has just been refused for insufficient funds from an account
\* that holds money
C5_Witness ==
    /\ last.op = "withdraw"
    /\ last.result = "insufficient"
    /\ \E a \in DOMAIN accounts : FGt(accounts[a].balance, Zero)

(***************************************************************************)
(* C6 as claimed.  apply_interest on an account with any balance B > 0     *)
(* adds round(B * rate, 2) to the balance and appends exactly one          *)
(* 'Interest Applied' record with that amount; on balance 0 it appends     *)
(* nothing and leaves the balance unchanged.                               *)
(* It does not hold for a positive balance whose interest rounds to 0.00   *)
(* (B <= 0.33): the code appends a record only `if interest_earned > 0`.    *)
(***************************************************************************)
InterestRan == last'.op = "interest" /\ last'.result \in {"ok", "none_applied"}

C6_InterestOnEveryPositiveBalance ==
    [][ InterestRan =>
          /\ DOMAIN accounts' = DOMAIN accounts
          /\ \A a \in DOMAIN accounts :
                LET B == accounts[a].balance
                    I == InterestEarned(B)
                IN  /\ FGt(B, Zero) =>
                          accounts'[a] =
                            [accounts[a] EXCEPT
                               !.balance = FAdd(B, I),
                               !.transactions = Append(@,
                                   [type |-> "Interest Applied", amount |-> I])]
                    /\ B = Zero => accounts'[a] = accounts[a]
      ]_vars

(***************************************************************************)
(* C6 as amended.  apply_interest on an account with balance B > 0 whose   *)
(* interest I = round(B * rate, 2) is > 0 adds I to the balance and        *)
(* appends exactly one 'Interest Applied' record of amount I; on every     *)
(* other account (balance 0, not positive or nan, or interest rounding to  *)
(* 0.00) it appends nothing and leaves the balance unchanged.  Each        *)
(* account is computed from its own balance alone.                         *)
(***************************************************************************)
C6_InterestWhenItRoundsAboveZero ==
    [][ InterestRan =>
          /\ DOMAIN accounts' = DOMAIN accounts
          /\ \A a \in DOMAIN accounts :
                LET B == accounts[a].balance
                    I == InterestEarned(B)
                IN  IF FGt(B, Zero) /\ FGt(I, Zero)
                    THEN accounts'[a] =
                            [accounts[a] EXCEPT
                               !.balance = FAdd(B, I),
                               !.transactions = Append(@,
                                   [type |-> "Interest Applied", amount |-> I])]
                    ELSE accounts'[a] = accounts[a]
      ]_vars

\* interest has just been applied to a ledger where one account earned some
\* and another, with a positive balance, earned none
C6_Witness ==
    /\ last.op = "interest"
    /\ last.result = "ok"
    /\ \E a \in DOMAIN accounts :
          LET log == accounts[a].transactions
          IN  log # <<>> /\ log[Len(log)].type = "Interest Applied"
    /\ \E b \in DOMAIN accounts :
          LET log == accounts[b].transactions
          IN  /\ FGt(accounts[b].balance, Zero)
              /\ log # <<>> /\ log[Len(log)].type # "Interest Applied"

(***************************************************************************)
(* C7.  Transaction logs are append-only: across any step of an            *)
(* in-session operation (create, deposit, withdraw, transfer, interest,    *)
(* the displays with their authentication, exit with its save) every       *)
(* account is still there and its log after the step has its log before    *)
(* the step as a prefix.                                                   *)
(***************************************************************************)
C7_LogsAppendOnly ==
    [][ pc = "menu" =>
          \A a \in DOMAIN accounts :
              /\ a \in DOMAIN accounts'
              /\ IsPrefix(accounts[a].transactions, accounts'[a].transactions)
      ]_vars

\* a record has just been appended to a log that already held one
C7_Witness ==
    /\ last.result = "ok"
    /\ last.op \in {"deposit", "withdraw", "transfer", "interest"}
    /\ \E a \in DOMAIN accounts :
          /\ Len(accounts[a].transactions) = 2
          /\ accounts[a].transactions[1] # accounts[a].transactions[2]

(***************************************************************************)
(* C8.  Every successful mutating operation (create, deposit, withdrawal,  *)
(* transfer, interest that credits at least one account) calls             *)
(* save_banking_data exactly once, after all of its in-memory mutations:   *)
(* on a disk where saves succeed the file then holds the ledger as the     *)
(* operation left it.  An operation that fails or mutates nothing calls    *)
(* save zero times.                                                        *)
(***************************************************************************)
Handlers == {"create", "deposit", "withdraw", "balance", "history", "transfer", "interest"}

\* the content of file f is the dump of this ledger
HoldsDumpOf(f, accs, n) == [f EXCEPT !.access = "rw"] = JsonDump(accs, n)

C8_SaveExactlyOnceOnSuccess ==
    last.op \in Handlers =>
        IF last.result = "ok"
        THEN /\ last.saves = 1
             /\ saveOk => HoldsDumpOf(file, accounts, next_account_number)
        ELSE last.saves = 0

\* interest has just been credited and saved
C8_Witness ==
    /\ last.op = "interest"
    /\ last.result = "ok"
    /\ last.saves = 1

(***************************************************************************)
(* C9 as claimed.  The file mirrors memory: whenever control is in the     *)
(* menu loop with no handler running and the saves of the session have     *)
(* succeeded, loading the data file would give the in-memory ledger: the   *)
(* same accounts, balances, logs and next_account_number.                  *)
(* It does not hold where the process may write the data file but not read *)
(* it: every save succeeds and reports nothing, and a load of the file     *)
(* gives the empty ledger.                                                 *)
(***************************************************************************)
C9_FileMirrorsMemory ==
    (pc \in {"menu", "pause"} /\ saveOk) => load_banking_data(file) = Ledger

(***************************************************************************)
(* C9 as amended.  Whenever control is in the menu loop with no handler    *)
(* running, the saves of the session have succeeded and the process may    *)
(* read the data file, loading the file would give the in-memory ledger:   *)
(* the same accounts, balances, logs and next_account_number.  The states  *)
(* right after the startup load are among them, whatever file the session  *)
(* found.  On a disk that can fail the condition is that the latest save   *)
(* succeeded.                                                              *)
(***************************************************************************)
C9_ReadableFileMirrorsMemory ==
    (pc \in {"menu", "pause"} /\ saveOk /\ file.access = "rw")
        => load_banking_data(file) = Ledger

\* back at the menu in a session that loaded an account of an older version
\* and then opened and funded a second account
C9_Witness ==
    /\ pc = "menu"
    /\ saveOk
    /\ file.kind = "json"
    /\ file.access = "rw"
    /\ Cardinality(DOMAIN accounts) = 2
    /\ \E a \in DOMAIN accounts : accounts[a].password_hash = NoHash
    /\ \E a \in DOMAIN accounts : accounts[a].transactions # <<>>

(***************************************************************************)
(* C10 as claimed.  Round trip: for every ledger the session reaches,      *)
(* save_banking_data followed by load_banking_data gives back the same     *)
(* ledger: the same account numbers, balances, records in the same order   *)
(* and next_account_number.                                                *)
(* It does not hold where the process may not read the data file (the load *)
(* gives the empty ledger whatever was saved) or may not write it (the     *)
(* save writes nothing).                                                   *)
(***************************************************************************)
C10_SaveLoadRoundTrip ==
    pc = "menu" =>
        load_banking_data(save_banking_data(file, accounts, next_account_number, "ok"))
            = Ledger

(***************************************************************************)
(* C10 as amended.  Round trip: for every ledger the session reaches, at a *)
(* data file the process may read and write, a save_banking_data whose     *)
(* write completes followed by load_banking_data gives back the same       *)
(* ledger: the same account numbers, balances, records in the same order   *)
(* and next_account_number.  The save writes every balance and amount as   *)
(* the decimal float.__repr__ gives or as NaN or Infinity, and the load    *)
(* reads the text back with float(): the balance read is the double that   *)
(* was written, also one that no two-place decimal spells                  *)
(* (0.39999999999999997), and an account opened with nan or inf comes back *)
(* with nan or inf.                                                        *)
(***************************************************************************)
C10_RoundTripOfAccessibleFile ==
    (pc = "menu" /\ file.access = "rw") =>
        load_banking_data(save_banking_data(file, accounts, next_account_number, "ok"))
            = Ledger

\* a ledger at a file the process may read and write, where one account has
\* two records and a balance written with more than two decimal places, and
\* the other a balance that is not finite
C10_Witness ==
    /\ pc = "menu"
    /\ file.access = "rw"
    /\ Cardinality(DOMAIN accounts) = 2
    /\ \E a \in DOMAIN accounts :
          /\ Len(accounts[a].transactions) = 2
          /\ accounts[a].balance.k = "fin"
          /\ float_repr(accounts[a].balance).p > 2
    /\ \E a \in DOMAIN accounts : accounts[a].balance.k # "fin"

(***************************************************************************)
(* C11.  load_banking_data never raises: when the data file is missing, is *)
(* unreadable, is not valid JSON, or is valid JSON without the top-level   *)
(* "accounts" or "next_account_number" field, the ledger after the load is *)
(* empty with next_account_number = 1001, and run_bank goes on to the      *)
(* menu.                                                                   *)
(***************************************************************************)
Unusable(f) == f.kind \in {"missing", "unreadable", "corrupt"}
                  \/ f.access # "rw"
                  \/ (f.kind = "json" /\ ~(f.has_accounts /\ f.has_next))

C11_LoadOfUnusableFileGivesEmptyLedger ==
    [][ (pc = "start" /\ Unusable(file)) =>
            /\ accounts' = NoAccounts
            /\ next_account_number' = StartAccountNumber
            /\ pc' = "menu"
      ]_vars

\* at the menu with an empty ledger, after the load of a file that holds an
\* account but no counter
C11_Witness ==
    /\ pc = "menu"
    /\ file = NoCounterFile
    /\ accounts = NoAccounts
    /\ next_account_number = StartAccountNumber

(***************************************************************************)
(* C12.  In every reachable state next_account_number is strictly greater  *)
(* than every account identifier in use, sessions that start from a loaded *)
(* file that passes the validation of load_banking_data included.          *)
(* It does not hold: the load takes "next_account_number" from the file as *)
(* it is, so a file whose counter is not above its account numbers gives a *)
(* ledger whose counter is not above them either.                          *)
(***************************************************************************)
C12_CounterAboveEveryIdentifier ==
    \A a \in DOMAIN accounts : next_account_number > a

(***************************************************************************)
(* C13.  authenticate_user grants access if and only if the account exists *)
(* and either it has no password_hash or one of the at most 3 passwords    *)
(* typed hashes to the stored hash.  It stops asking at the first correct  *)
(* password; after 3 incorrect passwords it fails without a 4th prompt; an *)
(* unknown account fails with no prompt at all.                            *)
(***************************************************************************)
Authenticated == {"deposit", "withdraw", "balance", "history", "transfer"}

C13_Authentication ==
    /\ last.prompts \in 0 .. 3
    /\ (last.op \in Authenticated /\ last.result = "auth_failed") =>
            last.prompts \in {0, 3}
    /\ pc = "menu" =>
          \A acc \in AccountInputs, att \in AllAttempts :
              LET au == authenticate_user(accounts, acc, att)
                  exists == acc \in DOMAIN accounts
                  hash == accounts[acc].password_hash
                  correct == {i \in 1 .. 3 : hash_password(att[i]) = hash}
                  first == CHOOSE i \in correct : \A j \in correct : i <= j
              IN  /\ au.ok <=> (exists /\ (hash = NoHash \/ correct # {}))
                  /\ au.prompts = IF ~exists THEN 0
                                  ELSE IF hash = NoHash THEN 0
                                  ELSE IF correct # {} THEN first
                                  ELSE 3

\* a balance has just been shown after the third password was the right one
C13_Witness ==
    /\ last.op = "balance"
    /\ last.result = "shown"
    /\ last.prompts = 3

(***************************************************************************)
(* C14.  Authentication has no side effect: a handler that only            *)
(* authenticates and displays, and a deposit, withdrawal, display or       *)
(* transfer whose authentication fails, leave every account (balance, log, *)
(* password_hash), next_account_number and the data file as they were, and *)
(* call no save.                                                           *)
(***************************************************************************)
C14_AuthenticationHasNoEffect ==
    [][ (last'.op \in Authenticated /\ last'.result \in {"auth_failed", "shown"}) =>
            /\ accounts' = accounts
            /\ next_account_number' = next_account_number
            /\ file' = file
            /\ saveOk' = saveOk
            /\ last'.saves = 0
      ]_vars

\* a deposit has just been refused after three wrong passwords for an account
\* that holds money
C14_Witness ==
    /\ last.op = "deposit"
    /\ last.result = "auth_failed"
    /\ last.prompts = 3
    /\ \E a \in DOMAIN accounts :
          accounts[a].password_hash # NoHash /\ FGt(accounts[a].balance, Zero)

(***************************************************************************)
(* C15.  create_new_account with an initial deposit d >= 0 adds exactly    *)
(* one account, under an identifier that was not in use, with balance d    *)
(* and the hash of the password; its log holds exactly one 'Initial        *)
(* Deposit' record of amount d when d > 0 and is empty when d = 0; every   *)
(* account that existed is unchanged.  No negative d is accepted.          *)
(***************************************************************************)
C15_CreateNewAccount ==
    [][ (last'.op = "create" /\ last'.result = "ok") =>
          /\ ~FLt(last'.amount, Zero)
          /\ FGe(last'.amount, Zero) =>
                LET d == last'.amount
                    new == DOMAIN accounts' \ DOMAIN accounts
                IN  /\ DOMAIN accounts \subseteq DOMAIN accounts'
                    /\ new = {last'.acc}
                    /\ last'.acc \notin DOMAIN accounts
                    /\ accounts'[last'.acc].balance = d
                    /\ accounts'[last'.acc].password_hash \in
                           {hash_password(p) : p \in NewPasswordInputs}
                    /\ accounts'[last'.acc].transactions =
                           IF FGt(d, Zero)
                           THEN <<[type |-> "Initial Deposit", amount |-> d]>>
                           ELSE <<>>
                    /\ \A a \in DOMAIN accounts : accounts'[a] = accounts[a]
      ]_vars

\* an account has just been opened with no money, next to an account that
\* has a record in its log
C15_Witness ==
    /\ last.op = "create"
    /\ last.result = "ok"
    /\ last.amount = Zero
    /\ last.acc \in DOMAIN accounts
    /\ accounts[last.acc].transactions = <<>>
    /\ \E a \in DOMAIN accounts \ {last.acc} : accounts[a].transactions # <<>>

(***************************************************************************)
(* C16.  A failed save does not roll back: when the save of a successful   *)
(* creation, deposit, withdrawal, transfer or interest run fails, the      *)
(* ledger in memory holds the handler's changes (balances changed, records *)
(* appended), the failure is reported and not raised (the handler returns  *)
(* and run_bank goes on to its pause and menu), and the file is either     *)
(* what it was or what the cut-short write left.  Checked under SpecIO.    *)
(***************************************************************************)
Mutating == {"create", "deposit", "withdraw", "transfer", "interest"}

C16_FailedSaveKeepsTheMutation ==
    [][ (pc = "menu" /\ last'.op \in Mutating /\ last'.result = "ok" /\ ~saveOk') =>
          LET A == last'.acc
              D == last'.dest
              x == last'.amount
          IN
          /\ pc' = "pause"
          /\ last'.saves = 1
          /\ file' \in {file, [CorruptFile EXCEPT !.access = file.access]}
          /\ \A a \in DOMAIN accounts :
                /\ a \in DOMAIN accounts'
                /\ IsPrefix(accounts[a].transactions, accounts'[a].transactions)
          /\ last'.op = "create" =>
                /\ A \notin DOMAIN accounts
                /\ A \in DOMAIN accounts'
                /\ accounts'[A].balance = x
                /\ next_account_number' > A
          /\ last'.op = "deposit" =>
                accounts'[A] =
                  [accounts[A] EXCEPT
                     !.balance = FAdd(@, x),
                     !.transactions = Append(@, [type |-> "Deposit", amount |-> x])]
          /\ last'.op = "withdraw" =>
                accounts'[A] =
                  [accounts[A] EXCEPT
                     !.balance = FSub(@, x),
                     !.transactions = Append(@, [type |-> "Withdrawal", amount |-> x])]
          /\ last'.op = "transfer" =>
                /\ accounts'[A] =
                     [accounts[A] EXCEPT
                        !.balance = FSub(@, x),
                        !.transactions = Append(@,
                            [type |-> "Transfer Sent", amount |-> x, to_account |-> D])]
                /\ accounts'[D] =
                     [accounts[D] EXCEPT
                        !.balance = FAdd(@, x),
                        !.transactions = Append(@,
                            [type |-> "Transfer Received", amount |-> x,
                             from_account |-> A])]
          /\ last'.op = "interest" =>
                /\ accounts' = [a \in DOMAIN accounts |-> InterestOn(accounts[a])]
                /\ accounts' # accounts
      ]_vars

\* after a save that failed, the ledger in memory is ahead of the file and
\* the session has gone on to serve a balance inquiry
C16_Witness ==
    /\ ~saveOk
    /\ last.op = "balance"
    /\ last.result = "shown"
    /\ load_banking_data(file) # Ledger
    /\ \E a \in DOMAIN accounts : Len(accounts[a].transactions) = 2

(***************************************************************************)
(* C17.  Persistence never loses committed state: once a completed         *)
(* save_banking_data has put a ledger in the file, a later save attempt    *)
(* that fails leaves a file whose load still gives at least the accounts   *)
(* and records of the ledger saved before.                                 *)
(* It does not hold: open(DATA_FILE, 'w') truncates the file before        *)
(* json.dump writes, so a write that is cut short leaves text that is not  *)
(* JSON, and the load of it gives the empty ledger.  Checked under SpecIO. *)
(***************************************************************************)
WrittenBySave(f) ==
    /\ f.kind = "json"
    /\ f.has_accounts
    /\ f.has_next
    /\ \A a \in DOMAIN f.accounts : f.accounts[a].tx_list

C17_CommittedStateSurvives ==
    [][ (pc = "menu" /\ WrittenBySave(file) /\ last'.saves = 1 /\ ~saveOk') =>
          LET before == load_banking_data(file).accounts
              after == load_banking_data(file').accounts
          IN  \A a \in DOMAIN before :
                  /\ a \in DOMAIN after
                  /\ IsPrefix(before[a].transactions, after[a].transactions)
      ]_vars

(***************************************************************************)
(* C18.  A balance never decreases without a successful authentication for *)
(* that same account inside the same operation.  Whatever is typed, a      *)
(* handler lowers the balance of account A only if it is a withdrawal from *)
(* A or a transfer out of A and authenticate_user(A) succeeded on the      *)
(* passwords typed; and a step that changes A's balance without being a    *)
(* deposit, withdrawal or transfer authenticated for A (a transfer         *)
(* received, interest) only increases it.                                  *)
(***************************************************************************)
Lowered(before, after) ==
    {a \in DOMAIN before : FLt(after[a].balance, before[a].balance)}

C18_InEveryHandler ==
    pc = "menu" =>
      /\ \A acc \in AccountInputs, att \in AllAttempts, amt \in PositiveAmounts :
            /\ Lowered(accounts,
                       make_withdrawal(accounts, next_account_number,
                                       acc, att, amt).accounts)
                  \subseteq {a \in {acc} : authenticate_user(accounts, a, att).ok}
            /\ Lowered(accounts,
                       make_deposit(accounts, next_account_number,
                                    acc, att, amt).accounts) = {}
            /\ \A dest \in AccountInputs :
                  Lowered(accounts,
                          transfer_funds(accounts, next_account_number,
                                         acc, att, dest, amt).accounts)
                    \subseteq {a \in {acc} : authenticate_user(accounts, a, att).ok}
      /\ Lowered(accounts,
                 apply_interest_to_all_accounts(accounts, next_account_number).accounts)
            = {}

C18_InEveryStep ==
    pc = "menu" =>
      \A a \in DOMAIN accounts :
          /\ a \in DOMAIN accounts'
          /\ FLt(accounts'[a].balance, accounts[a].balance) =>
                /\ last'.op \in {"withdraw", "transfer"}
                /\ last'.result = "ok"
                /\ last'.acc = a
                /\ last'.prompts =< 3
                /\ last'.prompts = 0 <=> accounts[a].password_hash = NoHash
          /\ (/\ accounts'[a].balance # accounts[a].balance
              /\ ~(last'.op \in {"deposit", "withdraw", "transfer"} /\ last'.acc = a)) =>
                FGt(accounts'[a].balance, accounts[a].balance)

C18_NoDecreaseWithoutAuthentication ==
    []C18_InEveryHandler /\ [][C18_InEveryStep]_vars

\* money has just been withdrawn after the third password was the right one
C18_Witness ==
    /\ last.op = "withdraw"
    /\ last.result = "ok"
    /\ last.prompts = 3
    /\ accounts[last.acc].balance.k = "fin"
    /\ Cardinality(DOMAIN accounts) = 2

(***************************************************************************)
(* C19.  Money is conserved: the sum of all balances is unchanged by       *)
(* transfer_funds, whether it succeeds or fails, and by every operation    *)
(* that only reads; it changes by exactly +d on a creation with initial    *)
(* deposit d, +a on a successful deposit of a, -a on a successful          *)
(* withdrawal of a, and by the sum of the interest amounts credited on     *)
(* apply_interest.                                                         *)
(* It does not hold: float() reads "inf" as an amount, `amount > balance`  *)
(* is False for an infinite balance, and a transfer of inf out of it       *)
(* leaves the source with inf - inf = nan: the sum goes from inf to nan.   *)
(***************************************************************************)
RECURSIVE TotalBalance(_)
TotalBalance(accs) ==
    IF DOMAIN accs = {} THEN Zero
    ELSE LET a == CHOOSE x \in DOMAIN accs : TRUE
         IN  FAdd(accs[a].balance,
                  TotalBalance([x \in DOMAIN accs \ {a} |-> accs[x]]))

RECURSIVE TotalInterest(_)
TotalInterest(accs) ==
    IF DOMAIN accs = {} THEN Zero
    ELSE LET a == CHOOSE x \in DOMAIN accs : TRUE
             rest == TotalInterest([x \in DOMAIN accs \ {a} |-> accs[x]])
         IN  IF InterestApplies(accs[a])
             THEN FAdd(InterestEarned(accs[a].balance), rest)
             ELSE rest

C19_MoneyConserved ==
    [][ pc = "menu" =>
          LET before == TotalBalance(accounts)
              after == TotalBalance(accounts')
              x == last'.amount
          IN  IF last'.result # "ok" \/ last'.op \in {"transfer", "exit"}
              THEN after = before
              ELSE /\ last'.op = "create" => after = FAdd(before, x)
                   /\ last'.op = "deposit" => after = FAdd(before, x)
                   /\ last'.op = "withdraw" => after = FSub(before, x)
                   /\ last'.op = "interest" =>
                         after = FAdd(before, TotalInterest(accounts))
      ]_vars

(***************************************************************************)
(* C20.  create_new_account never overwrites an account: also when         *)
(* next_account_number, taken from a loaded file, is not above the         *)
(* identifiers in use, generate_account_number returns an identifier that  *)
(* is not a key of accounts; so the set of identifiers only grows during a *)
(* session and every account outlives every creation with its data as it  *)
(* was.                                                                    *)
(***************************************************************************)
C20_FreshIdentifier ==
    pc = "menu" =>
        LET g == generate_account_number(accounts, next_account_number)
        IN  /\ g.acc_num \notin DOMAIN accounts
            /\ g.acc_num >= next_account_number
            /\ \A k \in next_account_number .. (g.acc_num - 1) : k \in DOMAIN accounts
            /\ g.next = g.acc_num + 1

C20_IdentifiersOnlyGrow ==
    pc = "menu" =>
        /\ DOMAIN accounts \subseteq DOMAIN accounts'
        /\ (last'.op = "create" /\ last'.result = "ok") =>
              /\ DOMAIN accounts' = DOMAIN accounts \cup {last'.acc}
              /\ last'.acc \notin DOMAIN accounts
              /\ \A a \in DOMAIN accounts : accounts'[a] = accounts[a]
        /\ ~(last'.op = "create" /\ last'.result = "ok") =>
              DOMAIN accounts' = DOMAIN accounts

C20_CreateNeverOverwrites ==
    []C20_FreshIdentifier /\ [][C20_IdentifiersOnlyGrow]_vars

\* an account has just been opened under the number after the one the loaded
\* counter pointed at, which an account loaded from the file holds
C20_Witness ==
    /\ last.op = "create"
    /\ last.result = "ok"
    /\ last.acc = StartAccountNumber + 2
    /\ next_account_number = StartAccountNumber + 3
    /\ (StartAccountNumber + 1) \in DOMAIN accounts
    /\ accounts[StartAccountNumber + 1].password_hash = NoHash
    /\ StartAccountNumber \notin DOMAIN accounts

====
